---- MODULE Spec2Model ----
(***************************************************************************)
(* Model of the notification service's group-and-notification workflow:    *)
(* FirestoreService (email_groups and notification_logs collections),      *)
(* SmtpService, and the notify-group sequence get group -> log -> send.    *)
(*                                                                         *)
(* Each process is one service instance handling one request at a time.    *)
(* A step of a process is one access to the document store or to the SMTP  *)
(* server, together with the local code that follows it up to the next     *)
(* access; steps of different processes interleave freely.                 *)
(***************************************************************************)
EXTENDS Naturals, Sequences, FiniteSets, TLC

\* ------------------------------------------------------------------ bounds
MaxClock == 2

\* ------------------------------------------------------------------ inputs
Procs == {1, 2}
\* The (appcode, alert_type) pairs requests name; two of them give one doc id.
Keys == {<<"A", "C">>, <<"A", "B-C">>, <<"A-B", "C">>}
\* Groups already stored were added by alice under task T1; requests come from bob.
Users == {"bob"}
TaskIds == {"T2"}
Contents == {"<b>CPU high</b>"}
SmtpHosts == {"", "smtp.test"}

\* The member lists requests carry: empty, single, several, one repeating an address.
MemberLists ==
    {<<>>, <<"a@x.com">>, <<"b@x.com">>, <<"a@x.com", "b@x.com">>, <<"a@x.com", "a@x.com">>}

Range(s) == {s[i] : i \in 1..Len(s)}

NoDuplicates(s) == \A i, j \in 1..Len(s) : i # j => s[i] # s[j]

\* ------------------------------------------------------------------ store
\* doc_id = f"{appcode}-{alert_type}"
DocId(appcode, alert_type) == appcode \o "-" \o alert_type

DocIds == {DocId(k[1], k[2]) : k \in Keys}

\* A snapshot of a document that does not exist (doc.exists is False).
NoDoc ==
    [exists |-> FALSE, appcode |-> "", alert_type |-> "", members |-> <<>>,
     addedby |-> "", task_id |-> "", timestamp |-> 0]

\* firestore.ArrayUnion: each given element not already in the array is
\* appended to its end, in the order given; what the array holds stays.
RECURSIVE ArrayUnion(_, _)
ArrayUnion(arr, elems) ==
    IF elems = <<>> THEN arr
    ELSE ArrayUnion(IF Head(elems) \in Range(arr) THEN arr ELSE Append(arr, Head(elems)),
                    Tail(elems))

\* firestore.ArrayRemove: every occurrence of each given element is removed.
ArrayRemove(arr, elems) == SelectSeq(arr, LAMBDA x : x \notin Range(elems))

VARIABLES
    groups,     \* email_groups collection: doc id -> document (NoDoc if absent)
    logs,       \* notification_logs collection, in the order the entries were added
    outbox,     \* messages the SMTP server accepted, in order
    now,        \* the clock datetime.utcnow() reads; ticks once per request started
    client,     \* per service instance: TRUE iff self.client is not None
    smtp_host,  \* settings.smtp_host
    frame,      \* per process: the request it runs (arguments, position, outcome)
    groups0,    \* history: the email_groups collection as the service found it
    settings,   \* the settings the Teams and email senders are constructed from
    direct,     \* the last /notify, /notify/email or send_notification call and its outcome
    net         \* the network I/O that call performed, in order

vars == <<groups, logs, outbox, now, client, smtp_host, frame, groups0, settings, direct, net>>

\* The frame of a process that has not started a request.
Frame0 ==
    [op |-> "none", pc |-> "idle",
     at |-> 0,                  \* the clock when the request started
     appcode |-> "", alert_type |-> "",
     members |-> <<>>,          \* the members argument; notify-group: the resolved members
     email_content |-> "", requestedby |-> "",
     doc |-> NoDoc,             \* the snapshot doc_ref.get() returned
     data |-> NoDoc,            \* add_email_group: the record built for doc_ref.set
     storeRaised |-> FALSE,     \* history: the store raised during this call
     raised |-> "",             \* the exception the call ended with ("" if none)
     ret |-> NoDoc,             \* the value returned (NoDoc stands for None)
     retMembers |-> <<>>,       \* add_members / remove_members: the members in the returned dict
     state |-> "",              \* notify-group: Log, Dispatch or a terminal outcome
     nGet |-> 0, nLog |-> 0, nSend |-> 0,  \* notify-group: calls made by this request
     logIdx |-> 0]              \* notify-group: index in logs of this request's entry

\* The frame of a finished call: its arguments other than the key are gone.
Done(f, raised) ==
    [Frame0 EXCEPT !.op = f.op, !.pc = "done", !.at = f.at, !.appcode = f.appcode,
        !.alert_type = f.alert_type, !.raised = raised]

\* except Exception: the store's exception is raised again as FirestoreError.
StoreRaised(f) == [Done(f, "FirestoreError") EXCEPT !.storeRaised = TRUE]

\* Settings with the Teams webhook, the SMTP server and the sender configured
\* ("" stands for a setting that is unset: None or empty, both falsy), debug
\* off.
Settings0 ==
    [teams_webhook_url |-> "https://hooks.test/w", smtp_server |-> "smtp.test",
     sender_email |-> "noreply@x.com", sender_name |-> "Notification Service",
     debug |-> FALSE]

\* No call to the Teams or email senders has been made.
NoCall == [fn |-> "none"]

\* Groups the store may hold when the service starts: written by an earlier
\* add_email_group, at time 0.
StoredGroup(appcode, alert_type, members) ==
    [exists |-> TRUE, appcode |-> appcode, alert_type |-> alert_type, members |-> members,
     addedby |-> "alice", task_id |-> "T1", timestamp |-> 0]

InitStores ==
    {[d \in DocIds |-> NoDoc]}
    \cup {[d \in DocIds |-> IF d = DocId(k[1], k[2]) THEN StoredGroup(k[1], k[2], m) ELSE NoDoc] :
             k \in {<<"A", "C">>, <<"A", "B-C">>}, m \in {<<>>, <<"a@x.com">>}}

\* The state after construction, the Firestore client initialised.
InitCommon ==
    /\ groups \in InitStores
    /\ logs = <<>>
    /\ outbox = <<>>
    /\ now = 0
    /\ client = [p \in Procs |-> TRUE]
    /\ frame = [p \in Procs |-> Frame0]
    /\ groups0 = groups
    /\ settings = Settings0
    /\ direct = NoCall
    /\ net = <<>>

Init == InitCommon /\ smtp_host = "smtp.test"

InitNotify == InitCommon /\ smtp_host \in SmtpHosts

\* A process may start a request when it runs none.
CanStart(p) == frame[p].pc \in {"idle", "done"} /\ now < MaxClock

\* ------------------------------------------------------ add_email_group
\* add_email_group without the exists check: the record is built and written
\* whatever the document holds.
AddEmailGroupGet_NoExistsCheck(p, appcode, alert_type, members, addedby, task_id, storeOk) ==
    LET call == [Frame0 EXCEPT !.op = "add_email_group", !.at = now', !.appcode = appcode,
                     !.alert_type = alert_type, !.members = members]
    IN  /\ CanStart(p)
        /\ now' = now + 1
        /\ frame' = [frame EXCEPT ![p] =
              IF ~client[p] THEN Done(call, "FirestoreError")
              ELSE IF ~storeOk THEN StoreRaised(call)
              ELSE [call EXCEPT !.pc = "set", !.doc = groups[DocId(appcode, alert_type)],
                       !.data = [exists |-> TRUE, appcode |-> appcode,
                                 alert_type |-> alert_type, members |-> members,
                                 addedby |-> addedby, task_id |-> task_id,
                                 timestamp |-> now']]]
        /\ UNCHANGED <<groups, logs, outbox, client, smtp_host, groups0, settings, direct, net>>

\* Lines 62-85: client check, doc_ref.get(), exists check, data built.
\* storeOk = FALSE is the store raising in collection/document/get.
AddEmailGroupGet(p, appcode, alert_type, members, addedby, task_id, storeOk) ==
    LET call == [Frame0 EXCEPT !.op = "add_email_group", !.at = now', !.appcode = appcode,
                     !.alert_type = alert_type, !.members = members]
        doc == groups[DocId(appcode, alert_type)]
    IN  /\ CanStart(p)
        /\ now' = now + 1
        /\ frame' = [frame EXCEPT ![p] =
              IF ~client[p] THEN Done(call, "FirestoreError")
              ELSE IF ~storeOk THEN StoreRaised(call)
              ELSE IF doc.exists THEN Done(call, "ValueError")
              ELSE [call EXCEPT !.pc = "set", !.doc = doc,
                       !.data = [exists |-> TRUE, appcode |-> appcode,
                                 alert_type |-> alert_type, members |-> members,
                                 addedby |-> addedby, task_id |-> task_id,
                                 timestamp |-> now']]]
        /\ UNCHANGED <<groups, logs, outbox, client, smtp_host, groups0, settings, direct, net>>

\* The second half of add_email_group logging a failure of set and
\* returning data all the same.
AddEmailGroupSet_ReturnsOnFailure(p, storeOk) ==
    LET f == frame[p]
    IN  /\ f.op = "add_email_group" /\ f.pc = "set"
        /\ IF storeOk
           THEN /\ groups' = [groups EXCEPT ![DocId(f.appcode, f.alert_type)] = f.data]
                /\ frame' = [frame EXCEPT ![p] = [Done(f, "") EXCEPT !.ret = f.data]]
           ELSE /\ groups' = groups
                /\ frame' = [frame EXCEPT ![p] =
                                [Done(f, "") EXCEPT !.ret = f.data, !.storeRaised = TRUE]]
        /\ UNCHANGED <<logs, outbox, now, client, smtp_host, groups0, settings, direct, net>>

\* Lines 87-108: doc_ref.set(data) replaces the document whatever it holds;
\* return data. storeOk = FALSE is set raising, nothing written.
AddEmailGroupSet(p, storeOk) ==
    LET f == frame[p]
    IN  /\ f.op = "add_email_group" /\ f.pc = "set"
        /\ IF storeOk
           THEN /\ groups' = [groups EXCEPT ![DocId(f.appcode, f.alert_type)] = f.data]
                /\ frame' = [frame EXCEPT ![p] = [Done(f, "") EXCEPT !.ret = f.data]]
           ELSE /\ groups' = groups
                /\ frame' = [frame EXCEPT ![p] = StoreRaised(f)]
        /\ UNCHANGED <<logs, outbox, now, client, smtp_host, groups0, settings, direct, net>>

\* ---------------------------------------------- add_members / remove_members
\* add_members / remove_members without the exists check.
MembersGet_NoExistsCheck(p, op, appcode, alert_type, members, storeOk) ==
    LET call == [Frame0 EXCEPT !.op = op, !.at = now', !.appcode = appcode,
                     !.alert_type = alert_type, !.members = members]
    IN  /\ CanStart(p)
        /\ now' = now + 1
        /\ frame' = [frame EXCEPT ![p] =
              IF ~client[p] THEN Done(call, "FirestoreError")
              ELSE IF ~storeOk THEN StoreRaised(call)
              ELSE [call EXCEPT !.pc = "update", !.doc = groups[DocId(appcode, alert_type)]]]
        /\ UNCHANGED <<groups, logs, outbox, client, smtp_host, groups0, settings, direct, net>>

\* Lines 112-123 and 140-151: client check, doc_ref.get(), exists check.
MembersGet(p, op, appcode, alert_type, members, storeOk) ==
    LET call == [Frame0 EXCEPT !.op = op, !.at = now', !.appcode = appcode,
                     !.alert_type = alert_type, !.members = members]
        doc == groups[DocId(appcode, alert_type)]
    IN  /\ CanStart(p)
        /\ now' = now + 1
        /\ frame' = [frame EXCEPT ![p] =
              IF ~client[p] THEN Done(call, "FirestoreError")
              ELSE IF ~storeOk THEN StoreRaised(call)
              ELSE IF ~doc.exists THEN Done(call, "ValueError")
              ELSE [call EXCEPT !.pc = "update", !.doc = doc]]
        /\ UNCHANGED <<groups, logs, outbox, client, smtp_host, groups0, settings, direct, net>>

AddMembersGet(p, appcode, alert_type, members, storeOk) ==
    MembersGet(p, "add_members", appcode, alert_type, members, storeOk)

RemoveMembersGet(p, appcode, alert_type, members, storeOk) ==
    MembersGet(p, "remove_members", appcode, alert_type, members, storeOk)

\* remove_members written with ArrayUnion, as add_members is.
UpdateMembers_AlwaysUnion(doc, op, elems) ==
    [doc EXCEPT !.members = ArrayUnion(doc.members, elems)]

\* add_members appending the given list to the array, present or not.
UpdateMembers_Append(doc, op, elems) ==
    [doc EXCEPT !.members = IF op = "add_members" THEN doc.members \o elems
                            ELSE ArrayRemove(doc.members, elems)]

\* The update written with doc_ref.set({"members": ...}): the document is
\* replaced by one holding the new members only.
UpdateMembers_SetReplaces(doc, op, elems) ==
    [NoDoc EXCEPT !.exists = TRUE,
                  !.members = IF op = "add_members" THEN ArrayUnion(doc.members, elems)
                              ELSE ArrayRemove(doc.members, elems)]

\* doc_ref.update({"members": transform}) with the transform ArrayUnion or
\* ArrayRemove: the store applies it to the array the document holds at that
\* moment, in one atomic write.
UpdateMembers(doc, op, elems) ==
    [doc EXCEPT !.members = IF op = "add_members" THEN ArrayUnion(doc.members, elems)
                            ELSE ArrayRemove(doc.members, elems)]

\* The update done as read-modify-write by the caller: the new array is
\* computed from the snapshot read earlier and written back whole.
MembersUpdate_ReadModifyWrite(p, op, storeOk) ==
    LET f == frame[p]
        d == DocId(f.appcode, f.alert_type)
    IN  /\ f.op = op /\ f.pc = "update"
        /\ IF storeOk /\ groups[d].exists
           THEN /\ groups' = [groups EXCEPT ![d] =
                                 [groups[d] EXCEPT !.members =
                                     UpdateMembers(f.doc, op, f.members).members]]
                /\ frame' = [frame EXCEPT ![p] = [Done(f, "") EXCEPT !.retMembers = f.members]]
           ELSE /\ groups' = groups
                /\ frame' = [frame EXCEPT ![p] = StoreRaised(f)]
        /\ UNCHANGED <<logs, outbox, now, client, smtp_host, groups0, settings, direct, net>>

\* Lines 125-136 and 153-164: doc_ref.update (it raises when the document
\* does not exist); the dict returned carries the members given to the call.
MembersUpdate(p, op, storeOk) ==
    LET f == frame[p]
        d == DocId(f.appcode, f.alert_type)
    IN  /\ f.op = op /\ f.pc = "update"
        /\ IF storeOk /\ groups[d].exists
           THEN /\ groups' = [groups EXCEPT ![d] = UpdateMembers(groups[d], op, f.members)]
                /\ frame' = [frame EXCEPT ![p] = [Done(f, "") EXCEPT !.retMembers = f.members]]
           ELSE /\ groups' = groups
                /\ frame' = [frame EXCEPT ![p] = StoreRaised(f)]
        /\ UNCHANGED <<logs, outbox, now, client, smtp_host, groups0, settings, direct, net>>

AddMembersUpdate(p, storeOk) == MembersUpdate(p, "add_members", storeOk)

RemoveMembersUpdate(p, storeOk) == MembersUpdate(p, "remove_members", storeOk)

\* ------------------------------------------------------ get_email_group
\* get_email_group reporting a group without members as absent.
GetEmailGroup_EmptyIsNone(p, appcode, alert_type, storeOk) ==
    LET doc == groups[DocId(appcode, alert_type)]
    IN  IF ~client[p] THEN [raised |-> "FirestoreError", ret |-> NoDoc, storeRaised |-> FALSE]
        ELSE IF ~storeOk THEN [raised |-> "FirestoreError", ret |-> NoDoc, storeRaised |-> TRUE]
        ELSE IF ~doc.exists \/ doc.members = <<>>
             THEN [raised |-> "", ret |-> NoDoc, storeRaised |-> FALSE]
        ELSE [raised |-> "", ret |-> doc, storeRaised |-> FALSE]

\* get_email_group returning an empty record for a document that is absent.
GetEmailGroup_MissingIsEmpty(p, appcode, alert_type, storeOk) ==
    LET doc == groups[DocId(appcode, alert_type)]
    IN  IF ~client[p] THEN [raised |-> "FirestoreError", ret |-> NoDoc, storeRaised |-> FALSE]
        ELSE IF ~storeOk THEN [raised |-> "FirestoreError", ret |-> NoDoc, storeRaised |-> TRUE]
        ELSE IF ~doc.exists
             THEN [raised |-> "", ret |-> [NoDoc EXCEPT !.exists = TRUE], storeRaised |-> FALSE]
        ELSE [raised |-> "", ret |-> doc, storeRaised |-> FALSE]

\* get_email_group raising, as add_members does, when the document is absent.
GetEmailGroup_RaisesOnMissing(p, appcode, alert_type, storeOk) ==
    LET doc == groups[DocId(appcode, alert_type)]
    IN  IF ~client[p] THEN [raised |-> "FirestoreError", ret |-> NoDoc, storeRaised |-> FALSE]
        ELSE IF ~storeOk THEN [raised |-> "FirestoreError", ret |-> NoDoc, storeRaised |-> TRUE]
        ELSE IF ~doc.exists THEN [raised |-> "ValueError", ret |-> NoDoc, storeRaised |-> FALSE]
        ELSE [raised |-> "", ret |-> doc, storeRaised |-> FALSE]

\* get_email_group answering None when the client is not initialised.
GetEmailGroup_NoClientIsNone(p, appcode, alert_type, storeOk) ==
    LET doc == groups[DocId(appcode, alert_type)]
    IN  IF ~client[p] THEN [raised |-> "", ret |-> NoDoc, storeRaised |-> FALSE]
        ELSE IF ~storeOk THEN [raised |-> "FirestoreError", ret |-> NoDoc, storeRaised |-> TRUE]
        ELSE IF ~doc.exists THEN [raised |-> "", ret |-> NoDoc, storeRaised |-> FALSE]
        ELSE [raised |-> "", ret |-> doc, storeRaised |-> FALSE]

\* Lines 166-185 as a function of the caller's client, the store and the
\* outcome of the read: the exception raised ("" if none) and the value
\* returned.
GetEmailGroup(p, appcode, alert_type, storeOk) ==
    LET doc == groups[DocId(appcode, alert_type)]
    IN  IF ~client[p] THEN [raised |-> "FirestoreError", ret |-> NoDoc, storeRaised |-> FALSE]
        ELSE IF ~storeOk THEN [raised |-> "FirestoreError", ret |-> NoDoc, storeRaised |-> TRUE]
        ELSE IF ~doc.exists THEN [raised |-> "", ret |-> NoDoc, storeRaised |-> FALSE]
        ELSE [raised |-> "", ret |-> doc, storeRaised |-> FALSE]

\* A request that is one get_email_group call.
GetEmailGroupCall(p, appcode, alert_type, storeOk) ==
    LET call == [Frame0 EXCEPT !.op = "get_email_group", !.at = now', !.appcode = appcode,
                     !.alert_type = alert_type]
        r == GetEmailGroup(p, appcode, alert_type, storeOk)
    IN  /\ CanStart(p)
        /\ now' = now + 1
        /\ frame' = [frame EXCEPT ![p] =
              [Done(call, r.raised) EXCEPT !.ret = r.ret, !.storeRaised = r.storeRaised]]
        /\ UNCHANGED <<groups, logs, outbox, client, smtp_host, groups0, settings, direct, net>>

\* ------------------------------------------------------ log_notification
\* log_notification logging the store's failure and returning normally.
LogNotification_Swallow(p, appcode, alert_type, requestedby, email_content, recipients, storeOk) ==
    IF ~client[p] THEN [raised |-> "FirestoreError", logs |-> logs, storeRaised |-> FALSE]
    ELSE IF ~storeOk THEN [raised |-> "", logs |-> logs, storeRaised |-> TRUE]
    ELSE [raised |-> "", storeRaised |-> FALSE,
          logs |-> Append(logs, [appcode |-> appcode, alert_type |-> alert_type,
                                 requestedby |-> requestedby, email_content |-> email_content,
                                 recipients |-> recipients, timestamp |-> now])]

\* log_notification skipping an entry equal to one the log already holds.
LogNotification_Dedup(p, appcode, alert_type, requestedby, email_content, recipients, storeOk) ==
    LET e == [appcode |-> appcode, alert_type |-> alert_type,
              requestedby |-> requestedby, email_content |-> email_content,
              recipients |-> recipients, timestamp |-> now]
    IN  IF ~client[p] THEN [raised |-> "FirestoreError", logs |-> logs, storeRaised |-> FALSE]
        ELSE IF ~storeOk THEN [raised |-> "FirestoreError", logs |-> logs, storeRaised |-> TRUE]
        ELSE [raised |-> "", storeRaised |-> FALSE,
              logs |-> IF e \in Range(logs) THEN logs ELSE Append(logs, e)]

\* log_notification reading the group again and logging the members it holds
\* now, not the recipients it was given.
LogNotification_RereadsMembers(p, appcode, alert_type, requestedby, email_content, recipients, storeOk) ==
    IF ~client[p] THEN [raised |-> "FirestoreError", logs |-> logs, storeRaised |-> FALSE]
    ELSE IF ~storeOk THEN [raised |-> "FirestoreError", logs |-> logs, storeRaised |-> TRUE]
    ELSE [raised |-> "", storeRaised |-> FALSE,
          logs |-> Append(logs, [appcode |-> appcode, alert_type |-> alert_type,
                                 requestedby |-> requestedby, email_content |-> email_content,
                                 recipients |-> groups[DocId(appcode, alert_type)].members,
                                 timestamp |-> now])]

\* Lines 187-214: client check, the entry built, collection.add(data); a
\* failure of the store is raised as FirestoreError, nothing added.
LogNotification(p, appcode, alert_type, requestedby, email_content, recipients, storeOk) ==
    IF ~client[p] THEN [raised |-> "FirestoreError", logs |-> logs, storeRaised |-> FALSE]
    ELSE IF ~storeOk THEN [raised |-> "FirestoreError", logs |-> logs, storeRaised |-> TRUE]
    ELSE [raised |-> "", storeRaised |-> FALSE,
          logs |-> Append(logs, [appcode |-> appcode, alert_type |-> alert_type,
                                 requestedby |-> requestedby, email_content |-> email_content,
                                 recipients |-> recipients, timestamp |-> now])]

\* send_email logging a failure of the SMTP session instead of raising it.
SendEmail_SwallowsFailure(to_emails, content, smtpOk) ==
    IF smtp_host = "" \/ ~smtpOk THEN [raised |-> "", outbox |-> outbox]
    ELSE [raised |-> "", outbox |-> Append(outbox, [to |-> to_emails, content |-> content])]

\* A request that is one log_notification call.
LogNotificationCall(p, appcode, alert_type, requestedby, email_content, recipients, storeOk) ==
    LET call == [Frame0 EXCEPT !.op = "log_notification", !.at = now', !.appcode = appcode,
                     !.alert_type = alert_type]
        r == LogNotification(p, appcode, alert_type, requestedby, email_content, recipients,
                             storeOk)
    IN  /\ CanStart(p)
        /\ now' = now + 1
        /\ logs' = r.logs
        /\ frame' = [frame EXCEPT ![p] =
              [Done(call, r.raised) EXCEPT !.storeRaised = r.storeRaised]]
        /\ UNCHANGED <<groups, outbox, client, smtp_host, groups0, settings, direct, net>>

\* ------------------------------------------------------ SmtpService.send_email
\* smtp_service.py lines 16-44: without an SMTP host the call returns at once;
\* otherwise one message to all of to_emails, any failure raised as SmtpError.
SendEmail(to_emails, content, smtpOk) ==
    IF smtp_host = "" THEN [raised |-> "", outbox |-> outbox]
    ELSE IF ~smtpOk THEN [raised |-> "SmtpError", outbox |-> outbox]
    ELSE [raised |-> "", outbox |-> Append(outbox, [to |-> to_emails, content |-> content])]

\* ------------------------------------------------------ notify-group
\* The status a terminal outcome is reported with.
HttpStatus(state) ==
    CASE state = "NotFound" -> 404
      [] state = "EmptyGroup" -> 400
      [] state = "Sent" -> 200
      [] state \in {"LogFailed", "StoreUnavailable"} -> 500
      [] state = "DispatchFailed" -> 502

\* Resolve: get_email_group; absent -> NotFound, no members -> EmptyGroup.
\* An exception of the lookup ends the request (StoreUnavailable).
NotifyResolve(p, appcode, alert_type, email_content, requestedby, storeOk) ==
    LET call == [Frame0 EXCEPT !.op = "notify_group", !.at = now', !.appcode = appcode,
                     !.alert_type = alert_type, !.nGet = 1]
        r == GetEmailGroup(p, appcode, alert_type, storeOk)
    IN  /\ CanStart(p)
        /\ now' = now + 1
        /\ frame' = [frame EXCEPT ![p] =
              IF r.raised # ""
              THEN [Done(call, r.raised) EXCEPT !.state = "StoreUnavailable", !.nGet = 1,
                       !.storeRaised = r.storeRaised]
              ELSE IF ~r.ret.exists THEN [Done(call, "") EXCEPT !.state = "NotFound", !.nGet = 1]
              ELSE IF r.ret.members = <<>> THEN [Done(call, "") EXCEPT !.state = "EmptyGroup", !.nGet = 1]
              ELSE [call EXCEPT !.pc = "log", !.state = "Log", !.members = r.ret.members,
                       !.email_content = email_content, !.requestedby = requestedby]]
        /\ UNCHANGED <<groups, logs, outbox, client, smtp_host, groups0, settings, direct, net>>

\* Log: log_notification with the resolved members; a failure ends the
\* request in LogFailed, before any dispatch.
NotifyLog(p, storeOk) ==
    LET f == frame[p]
        r == LogNotification(p, f.appcode, f.alert_type, f.requestedby, f.email_content,
                             f.members, storeOk)
    IN  /\ f.op = "notify_group" /\ f.pc = "log"
        /\ logs' = r.logs
        /\ frame' = [frame EXCEPT ![p] =
              IF r.raised # ""
              THEN [Done(f, r.raised) EXCEPT !.state = "LogFailed", !.nGet = f.nGet, !.nLog = 1,
                       !.storeRaised = r.storeRaised]
              ELSE [f EXCEPT !.pc = "send", !.state = "Dispatch", !.nLog = 1,
                       !.logIdx = Len(r.logs)]]
        /\ UNCHANGED <<groups, outbox, now, client, smtp_host, groups0, settings, direct, net>>

\* Dispatch: one send_email to the resolved members; Sent or DispatchFailed.
NotifySend(p, smtpOk) ==
    LET f == frame[p]
        r == SendEmail(f.members, f.email_content, smtpOk)
    IN  /\ f.op = "notify_group" /\ f.pc = "send"
        /\ outbox' = r.outbox
        /\ frame' = [frame EXCEPT ![p] =
              [Done(f, r.raised) EXCEPT
                  !.state = IF r.raised # "" THEN "DispatchFailed" ELSE "Sent",
                  !.nGet = f.nGet, !.nLog = f.nLog, !.nSend = 1, !.logIdx = f.logIdx]]
        /\ UNCHANGED <<groups, logs, now, client, smtp_host, groups0, settings, direct, net>>

\* ------------------------------------------------------ Optional values
\* An Optional[...] argument: None, or a value (which may itself be empty).
None == [some |-> FALSE]

Some(v) == [some |-> TRUE, v |-> v]

\* Python truthiness of an Optional[str] held as a string, and of an
\* Optional list, dict or str held as a sequence.
TruthyStr(o) == o.some /\ o.v # ""

TruthySeq(o) == o.some /\ Len(o.v) > 0

\* ------------------------------------------------------ _get_severity_color
\* Severity strings are sequences of characters, so that str.lower() is a
\* conversion and not the identity.
LowerOf ==
    [A |-> "a", B |-> "b", C |-> "c", D |-> "d", E |-> "e", F |-> "f", G |-> "g",
     H |-> "h", I |-> "i", J |-> "j", K |-> "k", L |-> "l", M |-> "m", N |-> "n",
     O |-> "o", P |-> "p", Q |-> "q", R |-> "r", S |-> "s", T |-> "t", U |-> "u",
     V |-> "v", W |-> "w", X |-> "x", Y |-> "y", Z |-> "z"]

Lower(s) == [i \in 1..Len(s) |-> IF s[i] \in DOMAIN LowerOf THEN LowerOf[s[i]] ELSE s[i]]

\* main.py lines 220-225: color_map.
ColorMap ==
    (<<"i", "n", "f", "o">> :> "0078D4")
    @@ (<<"w", "a", "r", "n", "i", "n", "g">> :> "FFA500")
    @@ (<<"e", "r", "r", "o", "r">> :> "D13438")
    @@ (<<"s", "u", "c", "c", "e", "s", "s">> :> "28A745")

\* The lookup done on the severity as given, without lower().
GetSeverityColor_CaseSensitive(severity) ==
    LET key == IF TruthySeq(severity) THEN severity.v ELSE <<"i", "n", "f", "o">>
    IN  IF key \in DOMAIN ColorMap THEN ColorMap[key] ELSE "0078D4"

\* main.py lines 219-227:
\* color_map.get(severity.lower() if severity else "info", "0078D4").
GetSeverityColor(severity) ==
    LET key == IF TruthySeq(severity) THEN Lower(severity.v) ELSE <<"i", "n", "f", "o">>
    IN  IF key \in DOMAIN ColorMap THEN ColorMap[key] ELSE "0078D4"

\* The severities requests carry: None, the empty string, the four names in
\* several casings, and strings that are no name.
Severities ==
    {None, Some(<<>>),
     Some(<<"i", "n", "f", "o">>), Some(<<"I", "N", "F", "O">>), Some(<<"I", "n", "f", "o">>),
     Some(<<"w", "a", "r", "n", "i", "n", "g">>), Some(<<"W", "a", "r", "n", "i", "n", "g">>),
     Some(<<"w", "A", "R", "N", "I", "N", "G">>),
     Some(<<"e", "r", "r", "o", "r">>), Some(<<"E", "R", "R", "O", "R">>),
     Some(<<"s", "u", "c", "c", "e", "s", "s">>), Some(<<"S", "u", "C", "c", "E", "s", "S">>),
     Some(<<"c", "r", "i", "t", "i", "c", "a", "l">>), Some(<<"W", "A", "R", "N">>),
     Some(<<"i", "n", "f", "o", " ">>), Some(<<"E", "r", "r", "0", "r">>)}

\* ------------------------------------------------------ TeamsNotificationService
\* datetime.utcnow().strftime("%Y-%m-%d %H:%M:%S UTC") of the clock value t.
Strftime(t) == ToString(t) \o " UTC"

\* The fact rows of an additional_facts dict, a sequence of <<key, value>>
\* pairs in insertion order with no key twice; str(value) of a str is itself.
RECURSIVE FactRows(_)
FactRows(pairs) ==
    IF pairs = <<>> THEN <<>>
    ELSE <<[name |-> Head(pairs)[1], value |-> Head(pairs)[2]]>> \o FactRows(Tail(pairs))

\* _build_message_card with the Timestamp row only in a card that has facts.
BuildMessageCard_TimestampWithFacts(message, url, title, color, additional_facts, utcnow) ==
    LET facts == (IF TruthyStr(url) THEN <<[name |-> "URL", value |-> url.v]>> ELSE <<>>)
                 \o (IF TruthySeq(additional_facts) THEN FactRows(additional_facts.v) ELSE <<>>)
        card == ("@type" :> "MessageCard") @@ ("@context" :> "https://schema.org/extensions")
                @@ [themeColor |-> color, title |-> title, text |-> message,
                    sections |-> IF facts # <<>>
                                 THEN <<[facts |-> Append(facts, [name |-> "Timestamp",
                                                                  value |-> Strftime(utcnow)])]>>
                                 ELSE <<>>]
    IN  IF TruthyStr(url)
        THEN card @@ [potentialAction |->
                        <<("@type" :> "OpenUri")
                          @@ [name |-> "View Details",
                              targets |-> <<[os |-> "default", uri |-> url.v]>>]>>]
        ELSE card

\* _build_message_card testing "url is not None" where the code tests "url".
BuildMessageCard_UrlNotNone(message, url, title, color, additional_facts, utcnow) ==
    LET facts == (IF url.some THEN <<[name |-> "URL", value |-> url.v]>> ELSE <<>>)
                 \o (IF TruthySeq(additional_facts) THEN FactRows(additional_facts.v) ELSE <<>>)
        card == ("@type" :> "MessageCard") @@ ("@context" :> "https://schema.org/extensions")
                @@ [themeColor |-> color, title |-> title, text |-> message,
                    sections |-> (IF facts # <<>> THEN <<[facts |-> facts]>> ELSE <<>>)
                                 \o <<[facts |-> <<[name |-> "Timestamp",
                                                    value |-> Strftime(utcnow)]>>]>>]
    IN  IF url.some
        THEN card @@ [potentialAction |->
                        <<("@type" :> "OpenUri")
                          @@ [name |-> "View Details",
                              targets |-> <<[os |-> "default", uri |-> url.v]>>]>>]
        ELSE card

\* teams_service.py lines 120-191: the base card; the facts (the URL row if
\* url, then one row per additional fact) as a section if there are any; the
\* Timestamp section, always; potentialAction, one OpenUri, only if url.
BuildMessageCard(message, url, title, color, additional_facts, utcnow) ==
    LET facts == (IF TruthyStr(url) THEN <<[name |-> "URL", value |-> url.v]>> ELSE <<>>)
                 \o (IF TruthySeq(additional_facts) THEN FactRows(additional_facts.v) ELSE <<>>)
        card == ("@type" :> "MessageCard") @@ ("@context" :> "https://schema.org/extensions")
                @@ [themeColor |-> color, title |-> title, text |-> message,
                    sections |-> (IF facts # <<>> THEN <<[facts |-> facts]>> ELSE <<>>)
                                 \o <<[facts |-> <<[name |-> "Timestamp",
                                                    value |-> Strftime(utcnow)]>>]>>]
    IN  IF TruthyStr(url)
        THEN card @@ [potentialAction |->
                        <<("@type" :> "OpenUri")
                          @@ [name |-> "View Details",
                              targets |-> <<[os |-> "default", uri |-> url.v]>>]>>]
        ELSE card

\* What the webhook answers: a response with a status code, or no response
\* at all (httpx.RequestError; status_code 0 stands for none).
HttpOutcomes ==
    {[kind |-> "response", status_code |-> c] : c \in {200, 204, 302, 500}}
    \cup {[kind |-> "request_error", status_code |-> 0]}

\* httpx Response.is_success, which raise_for_status() tests: a 2xx status.
IsSuccess(status_code) == status_code \in 200..299

\* datetime.utcnow().isoformat() of the clock value t.
Isoformat(t) == "T" \o ToString(t)

\* send_notification without response.raise_for_status(): every response
\* counts as sent.
SendNotification_NoRaiseForStatus(message, url, title, color, additional_facts, http, utcnow) ==
    IF settings.teams_webhook_url = ""
    THEN [raised |-> "TeamsNotificationError", success |-> FALSE, net |-> <<>>,
          error |-> "Teams webhook URL is not configured", ret |-> None]
    ELSE LET card == BuildMessageCard(message, url,
                                      IF TruthyStr(title) THEN title.v ELSE "Notification",
                                      color, additional_facts, utcnow)
             post == [kind |-> "http_post", url |-> settings.teams_webhook_url, json |-> card]
         IN  IF http.kind = "response"
             THEN [raised |-> "", success |-> TRUE, net |-> <<post>>, error |-> "",
                   ret |-> Some([success |-> TRUE, status_code |-> http.status_code,
                                 message |-> "Notification sent successfully",
                                 timestamp |-> Isoformat(utcnow)])]
             ELSE [raised |-> "TeamsNotificationError", success |-> FALSE, net |-> <<post>>,
                   error |-> "Request error sending Teams notification", ret |-> None]

\* teams_service.py lines 63-118, send_notification: without a webhook URL
\* TeamsNotificationError before anything else; the card is built with
\* title or "Notification" and posted once; a response whose status is not a
\* success is raised as TeamsNotificationError with the status code in its
\* text, a transport error as TeamsNotificationError; otherwise the result
\* carries the status code of the response.
SendNotification(message, url, title, color, additional_facts, http, utcnow) ==
    IF settings.teams_webhook_url = ""
    THEN [raised |-> "TeamsNotificationError", success |-> FALSE, net |-> <<>>,
          error |-> "Teams webhook URL is not configured", ret |-> None]
    ELSE LET card == BuildMessageCard(message, url,
                                      IF TruthyStr(title) THEN title.v ELSE "Notification",
                                      color, additional_facts, utcnow)
             post == [kind |-> "http_post", url |-> settings.teams_webhook_url, json |-> card]
         IN  IF http.kind = "response" /\ IsSuccess(http.status_code)
             THEN [raised |-> "", success |-> TRUE, net |-> <<post>>, error |-> "",
                   ret |-> Some([success |-> TRUE, status_code |-> http.status_code,
                                 message |-> "Notification sent successfully",
                                 timestamp |-> Isoformat(utcnow)])]
             ELSE IF http.kind = "response"
             THEN [raised |-> "TeamsNotificationError", success |-> FALSE, net |-> <<post>>,
                   error |-> "HTTP error sending Teams notification: "
                             \o ToString(http.status_code),
                   ret |-> None]
             ELSE [raised |-> "TeamsNotificationError", success |-> FALSE, net |-> <<post>>,
                   error |-> "Request error sending Teams notification", ret |-> None]

Messages == {"Deployment completed"}

Urls == {None, Some(""), Some("https://example.com/details")}

Titles == {None, Some("Deployment")}

\* additional_facts: None, an empty dict and dicts of one and two pairs, the
\* same pairs in both orders, and keys named as the rows the card generates.
AdditionalFacts ==
    {None, Some(<<>>), Some(<<<<"Environment", "Production">>>>),
     Some(<<<<"Environment", "Production">>, <<"Version", "1.2.3">>>>),
     Some(<<<<"Version", "1.2.3">>, <<"Environment", "Production">>>>),
     Some(<<<<"Timestamp", "noon">>, <<"URL", "https://other.test">>>>)}

\* A call of teams_notification_service.send_notification by any caller
\* (url, title and additional_facts are optional, color is given).
SendNotificationCall(message, url, title, color, additional_facts, http) ==
    LET r == SendNotification(message, url, title, color, additional_facts, http, now')
    IN  /\ now < MaxClock
        /\ now' = now + 1
        /\ direct' = [fn |-> "send_notification", message |-> message, url |-> url,
                      title |-> title, color |-> color, additional_facts |-> additional_facts,
                      http |-> http,
                      raised |-> r.raised, success |-> r.success, error |-> r.error,
                      ret |-> r.ret]
        /\ net' = r.net
        /\ UNCHANGED <<groups, logs, outbox, client, smtp_host, frame, groups0, settings>>

\* ------------------------------------------------------ unexpected exceptions
\* An exception that is neither TeamsNotificationError nor
\* EmailNotificationError, raised while an endpoint handles a request: at
\* its entry (the logger call before the try block) or after the sender has
\* returned (the logger call inside the try block); text is str(exc).
NoFault == [at |-> "none", text |-> ""]

Faults == {[at |-> a, text |-> t] : a \in {"entry", "after"}, t \in {"boom-1", "boom-2"}}

\* main.py lines 72-90, general_exception_handler: the handler of whatever
\* leaves an endpoint uncaught.
GeneralExceptionHandler(text, path, utcnow) ==
    [error |-> "Internal Server Error",
     message |-> IF settings.debug THEN text ELSE "An unexpected error occurred",
     status_code |-> 500, path |-> path, timestamp |-> Isoformat(utcnow)]

\* main.py lines 135-217, POST /notify: the payload (url a str, severity and
\* title optional) goes to send_notification, called once, with the
\* severity's color; success is answered 200, TeamsNotificationError 502 and
\* any other exception raised in the try block 500, each with the text of
\* the exception in the detail; an exception raised before the try block
\* reaches general_exception_handler.
SendTeamsNotification(url, message, title, severity, additional_facts, http, fault) ==
    LET color == GetSeverityColor(severity)
        r == SendNotification(message, Some(url), title, color, additional_facts, http, now')
        request == [fn |-> "/notify", message |-> message, url |-> Some(url),
                    title |-> title, severity |-> severity,
                    additional_facts |-> additional_facts, http |-> http, fault |-> fault]
    IN  /\ now < MaxClock
        /\ now' = now + 1
        /\ IF fault.at = "entry"
           THEN /\ direct' = request @@
                      [color |-> "", calls |-> 0, raised |-> "Exception", success |-> FALSE,
                       error |-> fault.text, status_code |-> 500,
                       body |-> GeneralExceptionHandler(fault.text, "/notify", now')]
                /\ net' = <<>>
           ELSE /\ direct' = request @@
                      [color |-> color, calls |-> 1,
                       raised |-> IF r.raised # "" THEN r.raised
                                  ELSE IF fault.at = "after" THEN "Exception" ELSE "",
                       success |-> r.raised = "" /\ fault.at = "none",
                       error |-> IF r.raised # "" THEN r.error ELSE fault.text,
                       status_code |-> IF r.raised # "" THEN 502
                                       ELSE IF fault.at = "after" THEN 500 ELSE 200,
                       body |-> IF r.raised # ""
                                THEN [detail |-> "Failed to send Teams notification: " \o r.error]
                                ELSE IF fault.at = "after"
                                THEN [detail |-> "Internal server error: " \o fault.text]
                                ELSE [status |-> "success",
                                      message |-> "Notification sent to Teams channel",
                                      details |-> r.ret.v, timestamp |-> Isoformat(now')]]
                /\ net' = r.net
        /\ UNCHANGED <<groups, logs, outbox, client, smtp_host, frame, groups0, settings>>

\* ------------------------------------------------------ EmailNotificationService
\* ', '.join(addresses).
RECURSIVE Join(_)
Join(addresses) ==
    IF addresses = <<>> THEN ""
    ELSE IF Len(addresses) = 1 THEN addresses[1]
    ELSE addresses[1] \o ", " \o Join(Tail(addresses))

\* How the SMTP session goes: the connection fails, the login is refused,
\* sendmail raises (all recipients refused, or another SMTP error), the
\* server accepts the message for every recipient, or it accepts it for the
\* first recipient only: sendmail then returns the refused ones, no exception.
SmtpOutcomes == {"ok", "partial", "connect_error", "auth_error", "smtp_error"}

\* The session with all_recipients aliasing to_emails (no copy): the caller's
\* list grows by the cc and bcc addresses.
SmtpSession_NoCopy(to_emails, subject, message, cc_emails, bcc_emails, url, smtp, utcnow) ==
    LET headers == [Subject |-> subject,
                    From |-> settings.sender_name \o " <" \o settings.sender_email \o ">",
                    To |-> Join(to_emails)]
                   @@ (IF TruthySeq(cc_emails) THEN [Cc |-> Join(cc_emails.v)] ELSE <<>>)
        all_recipients == to_emails
                          \o (IF TruthySeq(cc_emails) THEN cc_emails.v ELSE <<>>)
                          \o (IF TruthySeq(bcc_emails) THEN bcc_emails.v ELSE <<>>)
        connect == [kind |-> "smtp_connect", server |-> settings.smtp_server]
        sendmail(accepted) ==
            [kind |-> "smtp_sendmail", from_addr |-> settings.sender_email,
             to_addrs |-> all_recipients, accepted |-> accepted, headers |-> headers,
             text |-> message, url |-> url]
        failed(error, io) ==
            [raised |-> "EmailNotificationError", success |-> FALSE, net |-> io,
             error |-> error, ret |-> None, to_emails |-> all_recipients]
        sent(accepted) ==
            [raised |-> "", success |-> TRUE, net |-> <<connect, sendmail(accepted)>>,
             error |-> "", to_emails |-> all_recipients,
             ret |-> Some([success |-> TRUE, message |-> "Email sent successfully",
                           recipients |->
                               [to |-> all_recipients,
                                cc |-> IF TruthySeq(cc_emails) THEN cc_emails.v ELSE <<>>,
                                bcc_count |-> IF TruthySeq(bcc_emails)
                                              THEN Len(bcc_emails.v) ELSE 0],
                           subject |-> subject, timestamp |-> Isoformat(utcnow)])]
    IN  CASE smtp = "ok" -> sent(all_recipients)
          [] smtp = "partial" -> sent(<<all_recipients[1]>>)
          [] smtp = "connect_error" -> failed("Unexpected error sending email", <<connect>>)
          [] smtp = "auth_error" -> failed("SMTP authentication failed", <<connect>>)
          [] smtp = "smtp_error" ->
                failed("SMTP error sending email", <<connect, sendmail(<<>>)>>)

\* email_service.py lines 110-185, the try block of send_email: the message
\* is built (Cc header only with cc_emails, no Bcc header); all_recipients is
\* a copy of to_emails extended by cc_emails and bcc_emails; one SMTP session
\* is opened and one sendmail made to all_recipients, its return value (the
\* recipients the server refused) dropped; any exception of the session is
\* raised as EmailNotificationError. to_emails in the result is the caller's
\* list after the call.
SmtpSession(to_emails, subject, message, cc_emails, bcc_emails, url, smtp, utcnow) ==
    LET headers == [Subject |-> subject,
                    From |-> settings.sender_name \o " <" \o settings.sender_email \o ">",
                    To |-> Join(to_emails)]
                   @@ (IF TruthySeq(cc_emails) THEN [Cc |-> Join(cc_emails.v)] ELSE <<>>)
        all_recipients == to_emails
                          \o (IF TruthySeq(cc_emails) THEN cc_emails.v ELSE <<>>)
                          \o (IF TruthySeq(bcc_emails) THEN bcc_emails.v ELSE <<>>)
        connect == [kind |-> "smtp_connect", server |-> settings.smtp_server]
        sendmail(accepted) ==
            [kind |-> "smtp_sendmail", from_addr |-> settings.sender_email,
             to_addrs |-> all_recipients, accepted |-> accepted, headers |-> headers,
             text |-> message, url |-> url]
        failed(error, io) ==
            [raised |-> "EmailNotificationError", success |-> FALSE, net |-> io,
             error |-> error, ret |-> None, to_emails |-> to_emails]
        sent(accepted) ==
            [raised |-> "", success |-> TRUE, net |-> <<connect, sendmail(accepted)>>,
             error |-> "", to_emails |-> to_emails,
             ret |-> Some([success |-> TRUE, message |-> "Email sent successfully",
                           recipients |->
                               [to |-> to_emails,
                                cc |-> IF TruthySeq(cc_emails) THEN cc_emails.v ELSE <<>>,
                                bcc_count |-> IF TruthySeq(bcc_emails)
                                              THEN Len(bcc_emails.v) ELSE 0],
                           subject |-> subject, timestamp |-> Isoformat(utcnow)])]
    IN  CASE smtp = "ok" -> sent(all_recipients)
          [] smtp = "partial" -> sent(<<all_recipients[1]>>)
          [] smtp = "connect_error" -> failed("Unexpected error sending email", <<connect>>)
          [] smtp = "auth_error" -> failed("SMTP authentication failed", <<connect>>)
          [] smtp = "smtp_error" ->
                failed("SMTP error sending email", <<connect, sendmail(<<>>)>>)

\* send_email checking the sender and the recipients inside the SMTP session,
\* after the connection to the server is opened.
EmailSendEmail_ChecksAfterConnect(to_emails, subject, message, cc_emails, bcc_emails, url, smtp, utcnow) ==
    LET refused(error, io) ==
            [raised |-> "EmailNotificationError", success |-> FALSE, net |-> io,
             error |-> error, ret |-> None, to_emails |-> to_emails]
        connect == [kind |-> "smtp_connect", server |-> settings.smtp_server]
    IN  IF settings.smtp_server = ""
        THEN refused("SMTP server is not configured", <<>>)
        ELSE IF smtp = "connect_error"
        THEN refused("Unexpected error sending email", <<connect>>)
        ELSE IF settings.sender_email = ""
        THEN refused("Sender email is not configured", <<connect>>)
        ELSE IF to_emails = <<>>
        THEN refused("No recipient email addresses provided", <<connect>>)
        ELSE SmtpSession(to_emails, subject, message, cc_emails, bcc_emails, url, smtp, utcnow)

\* email_service.py lines 65-185, send_email: server, sender and recipients
\* are checked first (lines 95-108), each raising EmailNotificationError
\* before anything is built or opened; then the try block.
EmailSendEmail(to_emails, subject, message, cc_emails, bcc_emails, url, smtp, utcnow) ==
    LET refused(error) ==
            [raised |-> "EmailNotificationError", success |-> FALSE, net |-> <<>>,
             error |-> error, ret |-> None, to_emails |-> to_emails]
    IN  IF settings.smtp_server = "" THEN refused("SMTP server is not configured")
        ELSE IF settings.sender_email = "" THEN refused("Sender email is not configured")
        ELSE IF to_emails = <<>> THEN refused("No recipient email addresses provided")
        ELSE SmtpSession(to_emails, subject, message, cc_emails, bcc_emails, url, smtp, utcnow)

ToEmails == {<<>>, <<"a@x.com">>, <<"a@x.com", "b@x.com">>}

CcEmails == {None, Some(<<>>), Some(<<"c@x.com">>)}

BccEmails == {None, Some(<<"d@x.com">>)}

Subjects == {"Deployment Notification"}

\* POST /notify/email calling send_email again when the first call failed.
SendEmailNotification_Retry(to_emails, subject, message, cc_emails, bcc_emails, url, smtp, fault) ==
    LET r == EmailSendEmail(to_emails, subject, message, cc_emails, bcc_emails, url, smtp, now')
        request == [fn |-> "/notify/email", to_emails |-> to_emails, subject |-> subject,
                    message |-> message, cc_emails |-> cc_emails, bcc_emails |-> bcc_emails,
                    url |-> url, smtp |-> smtp, fault |-> fault]
    IN  /\ now < MaxClock
        /\ now' = now + 1
        /\ IF fault.at = "entry"
           THEN /\ direct' = request @@
                      [calls |-> 0, raised |-> "Exception", success |-> FALSE,
                       error |-> fault.text, status_code |-> 500, to_emails_after |-> to_emails,
                       body |-> GeneralExceptionHandler(fault.text, "/notify/email", now')]
                /\ net' = <<>>
           ELSE /\ direct' = request @@
                      [calls |-> IF r.raised # "" THEN 2 ELSE 1,
                       raised |-> IF r.raised # "" THEN r.raised
                                  ELSE IF fault.at = "after" THEN "Exception" ELSE "",
                       success |-> r.raised = "" /\ fault.at = "none",
                       error |-> IF r.raised # "" THEN r.error ELSE fault.text,
                       status_code |-> IF r.raised # "" THEN 502
                                       ELSE IF fault.at = "after" THEN 500 ELSE 200,
                       to_emails_after |-> r.to_emails,
                       body |-> IF r.raised # ""
                                THEN [detail |-> "Failed to send email notification: " \o r.error]
                                ELSE IF fault.at = "after"
                                THEN [detail |-> "Internal server error: " \o fault.text]
                                ELSE [status |-> "success",
                                      message |-> "Email sent successfully",
                                      details |-> r.ret.v, timestamp |-> Isoformat(now')]]
                /\ net' = IF r.raised # "" THEN r.net \o r.net ELSE r.net
        /\ UNCHANGED <<groups, logs, outbox, client, smtp_host, frame, groups0, settings>>

\* main.py lines 230-313, POST /notify/email: the payload goes to
\* send_email, called once; success is answered 200, EmailNotificationError
\* 502 and any other exception raised in the try block 500, each with the
\* text of the exception in the detail; an exception raised before the try
\* block reaches general_exception_handler.
SendEmailNotification(to_emails, subject, message, cc_emails, bcc_emails, url, smtp, fault) ==
    LET r == EmailSendEmail(to_emails, subject, message, cc_emails, bcc_emails, url, smtp, now')
        request == [fn |-> "/notify/email", to_emails |-> to_emails, subject |-> subject,
                    message |-> message, cc_emails |-> cc_emails, bcc_emails |-> bcc_emails,
                    url |-> url, smtp |-> smtp, fault |-> fault]
    IN  /\ now < MaxClock
        /\ now' = now + 1
        /\ IF fault.at = "entry"
           THEN /\ direct' = request @@
                      [calls |-> 0, raised |-> "Exception", success |-> FALSE,
                       error |-> fault.text, status_code |-> 500, to_emails_after |-> to_emails,
                       body |-> GeneralExceptionHandler(fault.text, "/notify/email", now')]
                /\ net' = <<>>
           ELSE /\ direct' = request @@
                      [calls |-> 1,
                       raised |-> IF r.raised # "" THEN r.raised
                                  ELSE IF fault.at = "after" THEN "Exception" ELSE "",
                       success |-> r.raised = "" /\ fault.at = "none",
                       error |-> IF r.raised # "" THEN r.error ELSE fault.text,
                       status_code |-> IF r.raised # "" THEN 502
                                       ELSE IF fault.at = "after" THEN 500 ELSE 200,
                       to_emails_after |-> r.to_emails,
                       body |-> IF r.raised # ""
                                THEN [detail |-> "Failed to send email notification: " \o r.error]
                                ELSE IF fault.at = "after"
                                THEN [detail |-> "Internal server error: " \o fault.text]
                                ELSE [status |-> "success",
                                      message |-> "Email sent successfully",
                                      details |-> r.ret.v, timestamp |-> Isoformat(now')]]
                /\ net' = r.net
        /\ UNCHANGED <<groups, logs, outbox, client, smtp_host, frame, groups0, settings>>

\* ------------------------------------------------------------------ system
\* Requests to the group store.
Next ==
    \E p \in Procs, ok \in BOOLEAN :
        \/ \E k \in Keys, m \in MemberLists, u \in Users, tid \in TaskIds :
               AddEmailGroupGet(p, k[1], k[2], m, u, tid, ok)
        \/ AddEmailGroupSet(p, ok)
        \/ \E k \in Keys, m \in MemberLists : AddMembersGet(p, k[1], k[2], m, ok)
        \/ AddMembersUpdate(p, ok)
        \/ \E k \in Keys, m \in MemberLists : RemoveMembersGet(p, k[1], k[2], m, ok)
        \/ RemoveMembersUpdate(p, ok)
        \/ \E k \in Keys : GetEmailGroupCall(p, k[1], k[2], ok)

Spec == Init /\ [][Next]_vars

\* Notify-group requests, with membership updates running beside them.
NextNotify ==
    \E p \in Procs, ok \in BOOLEAN :
        \/ \E k \in Keys, c \in Contents, u \in Users :
               NotifyResolve(p, k[1], k[2], c, u, ok)
        \/ NotifyLog(p, ok)
        \/ NotifySend(p, ok)
        \/ \E k \in Keys, m \in MemberLists : AddMembersGet(p, k[1], k[2], m, ok)
        \/ AddMembersUpdate(p, ok)
        \/ \E k \in Keys, m \in MemberLists : RemoveMembersGet(p, k[1], k[2], m, ok)
        \/ RemoveMembersUpdate(p, ok)

SpecNotify == InitNotify /\ [][NextNotify]_vars

\* Service instances whose Firestore client may have failed to initialise
\* (_initialize_client leaves self.client None), each running the five
\* operations of the service.
InitClient ==
    /\ groups \in InitStores
    /\ logs = <<>>
    /\ outbox = <<>>
    /\ now = 0
    /\ client \in [Procs -> BOOLEAN]
    /\ smtp_host = "smtp.test"
    /\ frame = [p \in Procs |-> Frame0]
    /\ groups0 = groups
    /\ settings = Settings0
    /\ direct = NoCall
    /\ net = <<>>

NextClient ==
    \E p \in Procs, ok \in BOOLEAN :
        \/ \E k \in Keys, u \in Users, tid \in TaskIds :
               AddEmailGroupGet(p, k[1], k[2], <<"a@x.com">>, u, tid, ok)
        \/ AddEmailGroupSet(p, ok)
        \/ \E k \in Keys : AddMembersGet(p, k[1], k[2], <<"b@x.com">>, ok)
        \/ AddMembersUpdate(p, ok)
        \/ \E k \in Keys : RemoveMembersGet(p, k[1], k[2], <<"a@x.com">>, ok)
        \/ RemoveMembersUpdate(p, ok)
        \/ \E k \in Keys : GetEmailGroupCall(p, k[1], k[2], ok)
        \/ \E k \in Keys, c \in Contents, u \in Users :
               LogNotificationCall(p, k[1], k[2], u, c, <<"a@x.com">>, ok)

SpecClient == InitClient /\ [][NextClient]_vars

\* The settings a deployment may run with: each of the webhook URL, the SMTP
\* server and the sender address configured or not, in hardened mode (debug
\* off); and everything configured in verbose mode.
SettingsSet ==
    {[Settings0 EXCEPT !.teams_webhook_url = w, !.smtp_server = s, !.sender_email = e] :
        w \in {"", Settings0.teams_webhook_url}, s \in {"", Settings0.smtp_server},
        e \in {"", Settings0.sender_email}}
    \cup {[Settings0 EXCEPT !.debug = TRUE]}

InitDirect ==
    /\ groups = [d \in DocIds |-> NoDoc]
    /\ logs = <<>>
    /\ outbox = <<>>
    /\ now = 0
    /\ client = [p \in Procs |-> TRUE]
    /\ smtp_host = "smtp.test"
    /\ frame = [p \in Procs |-> Frame0]
    /\ groups0 = groups
    /\ settings \in SettingsSet
    /\ direct = NoCall
    /\ net = <<>>

\* Requests to the Teams and email senders. The calls of send_notification
\* carry the variety of url, title and additional_facts; POST /notify is
\* drawn with every severity and every answer of the webhook; unexpected
\* exceptions are drawn for one payload of each endpoint.
NextDirect ==
    \/ \E m \in Messages, u \in Urls, t \in Titles, f \in AdditionalFacts :
           SendNotificationCall(m, u, t, "0078D4", f, [kind |-> "response", status_code |-> 200])
    \/ \E m \in Messages, s \in Severities, h \in HttpOutcomes :
           SendTeamsNotification("https://example.com/details", m, None, s, None, h, NoFault)
    \/ \E m \in Messages, x \in Faults :
           SendTeamsNotification("https://example.com/details", m, None, None, None,
                                 [kind |-> "response", status_code |-> 200], x)
    \/ \E to \in ToEmails, sub \in Subjects, m \in Messages, cc \in CcEmails, bcc \in BccEmails,
          o \in SmtpOutcomes :
           SendEmailNotification(to, sub, m, cc, bcc, None, o, NoFault)
    \/ \E sub \in Subjects, m \in Messages, x \in Faults :
           SendEmailNotification(<<"a@x.com">>, sub, m, None, None, None, "ok", x)

SpecDirect == InitDirect /\ [][NextDirect]_vars

\* ================================================================== claims
\* Process p starts a request of kind op in this step.
Starts(p, op) == now' = now + 1 /\ frame'[p].at = now' /\ frame'[p].op = op

\* Process p finishes a request in this step.
Finishes(p) == frame[p].pc # "done" /\ frame'[p].pc = "done"

KeyDoc(f) == DocId(f.appcode, f.alert_type)

Succeeded(f, op) == f.op = op /\ f.pc = "done" /\ f.raised = ""

C2_ExactlyOneCreateSucceeds ==
    \A p, q \in Procs :
        (/\ p # q
         /\ Succeeded(frame[p], "add_email_group")
         /\ Succeeded(frame[q], "add_email_group")
         /\ frame[p].appcode = frame[q].appcode
         /\ frame[p].alert_type = frame[q].alert_type) => FALSE

Disjoint(s, t) == Range(s) \cap Range(t) = {}

\* C3: when add_members(A) and remove_members(R), A and R disjoint, are the
\* only two requests run (now = 2), on the same key, in any interleaving of
\* their steps, and both succeed, the members end as (M union A) minus R,
\* M the members the group had before.
C3_ConcurrentAddRemoveKeepBoth ==
    \A p, q \in Procs :
        (/\ now = 2
         /\ Succeeded(frame[p], "add_members")
         /\ Succeeded(frame[q], "remove_members")
         /\ frame[p].appcode = frame[q].appcode
         /\ frame[p].alert_type = frame[q].alert_type
         /\ Disjoint(frame[p].retMembers, frame[q].retMembers))
        => /\ groups[KeyDoc(frame[p])].exists
           /\ Range(groups[KeyDoc(frame[p])].members) =
                 (Range(groups0[KeyDoc(frame[p])].members) \cup Range(frame[p].retMembers))
                     \ Range(frame[q].retMembers)

\* Both calls have run on a group holding a@x.com: b@x.com added, a@x.com removed.
C3_Witness ==
    \E p, q \in Procs :
        /\ now = 2
        /\ Succeeded(frame[p], "add_members")
        /\ Succeeded(frame[q], "remove_members")
        /\ KeyDoc(frame[p]) = KeyDoc(frame[q])
        /\ frame[p].appcode = frame[q].appcode
        /\ frame[p].retMembers = <<"b@x.com">>
        /\ frame[q].retMembers = <<"a@x.com">>
        /\ groups0[KeyDoc(frame[p])].members = <<"a@x.com">>
        /\ groups[KeyDoc(frame[p])].members = <<"b@x.com">>

\* The log entry of request f: same key, and while the request still holds
\* them, its recipients, content and requester.
IsLogEntryOf(e, f) ==
    /\ e.appcode = f.appcode /\ e.alert_type = f.alert_type
    /\ f.pc = "send" => /\ e.recipients = f.members
                        /\ e.email_content = f.email_content
                        /\ e.requestedby = f.requestedby

\* C4: a notify-group request is at Dispatch, or has called send_email, only
\* with its own entry committed in the log; a request whose log_notification
\* raised is finished in LogFailed without a send_email call and without an
\* entry; every message the SMTP server accepted has a log entry with the
\* same recipients and content.
C4_LogGatesDispatch ==
    /\ \A p \in Procs :
          LET f == frame[p]
          IN  f.op = "notify_group" =>
                 /\ (f.pc = "send" \/ f.nSend > 0) =>
                        /\ f.nLog = 1
                        /\ f.logIdx \in 1..Len(logs)
                        /\ IsLogEntryOf(logs[f.logIdx], f)
                 /\ f.state = "LogFailed" =>
                        f.pc = "done" /\ f.nSend = 0 /\ f.logIdx = 0 /\ f.raised = "FirestoreError"
                 /\ (f.nLog = 1 /\ f.storeRaised) => f.state = "LogFailed"
    /\ \A i \in 1..Len(outbox) :
          \E j \in 1..Len(logs) :
              /\ logs[j].recipients = outbox[i].to
              /\ logs[j].email_content = outbox[i].content

\* One request ended in LogFailed, another was logged and sent.
C4_Witness ==
    \E p, q \in Procs :
        /\ frame[p].state = "LogFailed" /\ frame[p].nLog = 1 /\ frame[p].nSend = 0
        /\ frame[q].state = "Sent" /\ frame[q].nSend = 1
        /\ Len(outbox) = 1 /\ Len(logs) = 1

\* C5: a notify-group request whose lookup finds the group with an empty
\* members list ends at once in EmptyGroup, having called neither
\* log_notification nor send_email, the log and the outbox untouched.
C5_EmptyGroupEndsRequest ==
    [][\A p \in Procs :
        LET g == frame'[p]
            doc == groups[KeyDoc(g)]
        IN  (Starts(p, "notify_group") /\ g.raised = "" /\ doc.exists /\ doc.members = <<>>) =>
               /\ g.pc = "done" /\ g.state = "EmptyGroup"
               /\ g.nLog = 0 /\ g.nSend = 0 /\ g.logIdx = 0
               /\ logs' = logs /\ outbox' = outbox
    ]_vars

C5_Witness ==
    \E p \in Procs :
        /\ frame[p].op = "notify_group" /\ frame[p].state = "EmptyGroup"
        /\ groups[KeyDoc(frame[p])].exists
        /\ groups[KeyDoc(frame[p])].members = <<>>

C9_UnionAndDifferenceExact ==
    [][\A p \in Procs :
        LET f == frame[p]
            d == KeyDoc(f)
        IN  (f.pc = "update" /\ Finishes(p) /\ frame'[p].raised = "") =>
               /\ f.op = "add_members" =>
                     /\ Range(groups'[d].members) =
                           Range(groups[d].members) \cup Range(f.members)
                     /\ NoDuplicates(groups'[d].members)
               /\ f.op = "remove_members" =>
                     Range(groups'[d].members) = Range(groups[d].members) \ Range(f.members)
    ]_vars

\* C10: the members of every stored group hold no address twice.
C10_MembersNeverRepeat ==
    \A d \in DocIds : groups[d].exists => NoDuplicates(groups[d].members)

\* Process q applies the update of a membership request op with list L on the
\* document d in this step, and the store accepts it.
Updates(q, op, d, L) ==
    /\ frame[q].op = op /\ frame[q].pc = "update"
    /\ KeyDoc(frame[q]) = d /\ frame[q].members = L
    /\ Succeeded(frame'[q], op)

\* C11: when add_members(key, L) and then remove_members(key, L), the same
\* list L, are the only two requests run (now = 2) on an existing group and
\* both succeed, the add applied before the remove, the member set ends as
\* the original set minus L: the original set itself when it held no member
\* of L, and without the members of L it held otherwise.
C11_AddThenRemoveRestores ==
    [][\A p \in Procs, q \in Procs, d \in DocIds, L \in MemberLists :
          ( /\ now = 2 /\ p # q
            /\ Succeeded(frame[p], "add_members") /\ frame[p].at = 1
            /\ KeyDoc(frame[p]) = d /\ frame[p].retMembers = L
            /\ frame[q].at = 2
            /\ Updates(q, "remove_members", d, L) )
          => /\ groups0[d].exists
             /\ Range(groups'[d].members) = Range(groups0[d].members) \ Range(L)
             /\ Disjoint(groups0[d].members, L)
                    => Range(groups'[d].members) = Range(groups0[d].members)
    ]_vars

\* add_members(["b@x.com"]) then remove_members(["b@x.com"]) on a group of
\* a@x.com alone, both done: the group holds a@x.com alone again.
C11_Witness ==
    \E p \in Procs, q \in Procs, d \in DocIds :
        /\ now = 2 /\ p # q
        /\ Succeeded(frame[p], "add_members") /\ frame[p].at = 1
        /\ Succeeded(frame[q], "remove_members") /\ frame[q].at = 2
        /\ KeyDoc(frame[p]) = d /\ KeyDoc(frame[q]) = d
        /\ frame[p].retMembers = <<"b@x.com">> /\ frame[q].retMembers = <<"b@x.com">>
        /\ groups0[d].members = <<"a@x.com">>
        /\ groups[d].members = <<"a@x.com">>

\* C12: on an existing group, add_members with addresses all present and
\* remove_members with addresses none present succeed (the store not raising)
\* and leave the members array as it was; and when the same call is applied
\* twice, the only two requests run (now = 2), the second application leaves
\* the members as the first left them.
C12_MembershipUpdatesIdempotent ==
    [][\A q \in Procs :
          LET f == frame[q]
              d == KeyDoc(f)
              noop == IF f.op = "add_members"
                      THEN Range(f.members) \subseteq Range(groups[d].members)
                      ELSE Disjoint(f.members, groups[d].members)
          IN  ( /\ f.op \in {"add_members", "remove_members"} /\ f.pc = "update"
                /\ Finishes(q) /\ groups[d].exists )
              => /\ ~frame'[q].storeRaised => Succeeded(frame'[q], f.op)
                 /\ noop => groups' = groups
                 /\ (\E p \in Procs \ {q} :
                        /\ now = 2 /\ Succeeded(frame[p], f.op)
                        /\ KeyDoc(frame[p]) = d /\ frame[p].retMembers = f.members)
                    => groups' = groups
    ]_vars

\* add_members(["a@x.com", "b@x.com"]) applied twice to a group of a@x.com
\* alone, both done: the group holds a@x.com and b@x.com, each once.
C12_Witness ==
    \E p \in Procs, q \in Procs, d \in DocIds :
        /\ now = 2 /\ p # q
        /\ Succeeded(frame[p], "add_members") /\ Succeeded(frame[q], "add_members")
        /\ KeyDoc(frame[p]) = d /\ KeyDoc(frame[q]) = d
        /\ frame[p].retMembers = <<"a@x.com", "b@x.com">>
        /\ frame[q].retMembers = <<"a@x.com", "b@x.com">>
        /\ groups0[d].members = <<"a@x.com">>
        /\ groups[d].members = <<"a@x.com", "b@x.com">>

\* C13: the value a successful add_members or remove_members returns is the
\* member set stored for the key right after its update.
C13_ReturnsUpdatedMembers ==
    [][\A q \in Procs :
          LET f == frame[q]
          IN  ( /\ f.op \in {"add_members", "remove_members"} /\ f.pc = "update"
                /\ Succeeded(frame'[q], f.op) )
              => Range(frame'[q].retMembers) = Range(groups'[KeyDoc(f)].members)
    ]_vars

\* C14: the notification log only grows at its end: every step leaves the
\* entries already logged as they were and in place; a log_notification call
\* that succeeds adds exactly one entry, that of its request, also when an
\* equal entry is already there, and one that fails adds none; the send step,
\* failing or not, leaves the log as it was, the request's entry in place.
C14_LogAppendOnly ==
    [][/\ Len(logs') >= Len(logs)
       /\ SubSeq(logs', 1, Len(logs)) = logs
       /\ \A p \in Procs :
             LET f == frame[p]
             IN  /\ (f.op = "notify_group" /\ f.pc = "log" /\ frame'[p].pc # "log")
                    => IF frame'[p].raised = ""
                       THEN /\ Len(logs') = Len(logs) + 1
                            /\ IsLogEntryOf(logs'[Len(logs')], f)
                            /\ frame'[p].logIdx = Len(logs')
                       ELSE logs' = logs
                 /\ (f.op = "notify_group" /\ f.pc = "send" /\ Finishes(p))
                    => /\ logs' = logs
                       /\ frame'[p].logIdx = f.logIdx
                       /\ f.logIdx \in 1..Len(logs')
                       /\ IsLogEntryOf(logs'[f.logIdx], f)
    ]_vars

\* Two equal requests have logged two equal entries, and the dispatch of one
\* of them has failed with its entry still in the log.
C14_Witness ==
    /\ Len(logs) = 2 /\ logs[1] = logs[2]
    /\ \E p \in Procs : /\ frame[p].state = "DispatchFailed"
                         /\ frame[p].logIdx \in {1, 2}

\* The terminal outcomes of a notify-group request.
TerminalOutcomes == {"NotFound", "EmptyGroup", "LogFailed", "Sent", "DispatchFailed"}

\* The position of a notify-group request in Resolve, Log, Dispatch, done.
Rank(f) == CASE f.pc = "log" -> 2 [] f.pc = "send" -> 3 [] f.pc = "done" -> 4 [] OTHER -> 1

\* The calls a notify-group request has made fit the position it is at.
CallsFit(f) ==
    /\ f.nGet = 1
    /\ f.pc = "log" => f.state = "Log" /\ f.nLog = 0 /\ f.nSend = 0
    /\ f.pc = "send" => f.state = "Dispatch" /\ f.nLog = 1 /\ f.nSend = 0
    /\ f.pc = "done" =>
          /\ f.state \in {"NotFound", "EmptyGroup"} => f.nLog = 0 /\ f.nSend = 0 /\ f.raised = ""
          /\ f.state = "StoreUnavailable" => f.nLog = 0 /\ f.nSend = 0 /\ f.raised = "FirestoreError"
          /\ f.state = "LogFailed" => f.nLog = 1 /\ f.nSend = 0 /\ f.raised = "FirestoreError"
          /\ f.state = "Sent" => f.nLog = 1 /\ f.nSend = 1 /\ f.raised = ""
          /\ f.state = "DispatchFailed" => f.nLog = 1 /\ f.nSend = 1 /\ f.raised = "SmtpError"

\* C15 as stated: every notify-group request that has ended has ended in
\* NotFound, EmptyGroup, LogFailed, Sent or DispatchFailed.
C15_FiveTerminalOutcomes ==
    \A p \in Procs :
        (frame[p].op = "notify_group" /\ frame[p].pc = "done")
            => frame[p].state \in TerminalOutcomes

\* C15, amended: a notify-group request moves through Resolve, Log, Dispatch
\* in that order, one position at a time and never back, with exactly one
\* get_email_group call, at most one log_notification call and at most one
\* send attempt; while it has not ended its next step can be taken; it ends
\* in one of NotFound, EmptyGroup, LogFailed, Sent, DispatchFailed or, when
\* get_email_group raises FirestoreError, in StoreUnavailable with nothing
\* logged and nothing sent; the send step ends in DispatchFailed exactly when
\* the SMTP session failed, and in Sent otherwise.
C15_OnePassThroughResolveLogDispatch ==
    /\ [](\A p \in Procs :
            LET f == frame[p]
            IN  f.op = "notify_group" =>
                  /\ CallsFit(f)
                  /\ f.pc = "done" => f.state \in TerminalOutcomes \cup {"StoreUnavailable"}
                  /\ f.pc = "log" => ENABLED NotifyLog(p, TRUE)
                  /\ f.pc = "send" => ENABLED NotifySend(p, TRUE))
    /\ [][\A p \in Procs :
            LET f == frame[p]
                g == frame'[p]
            IN  /\ (g # f /\ g.at = f.at /\ f.op = "notify_group")
                      => /\ f.pc # "done"
                         /\ g.pc = "done" \/ Rank(g) = Rank(f) + 1
                         /\ g.nGet = f.nGet /\ g.nLog \in {f.nLog, f.nLog + 1}
                         /\ g.nSend \in {f.nSend, f.nSend + 1}
                /\ (f.op = "notify_group" /\ f.pc = "send" /\ g.pc = "done")
                      => (g.state = "Sent" <=> (smtp_host = "" \/ outbox' # outbox))
      ]_vars

\* One request has ended in Sent after one lookup, one log entry and one
\* send, another in StoreUnavailable after its lookup raised.
C15_Witness ==
    \E p \in Procs, q \in Procs :
        /\ frame[p].op = "notify_group" /\ frame[p].state = "Sent"
        /\ frame[p].nGet = 1 /\ frame[p].nLog = 1 /\ frame[p].nSend = 1
        /\ frame[q].op = "notify_group" /\ frame[q].state = "StoreUnavailable"
        /\ frame[q].nLog = 0 /\ frame[q].nSend = 0

\* The string s is the name written in some casing.
CaseVariantOf(s, name) ==
    /\ Len(s) = Len(name)
    /\ \A i \in 1..Len(s) :
          s[i] = name[i] \/ (s[i] \in DOMAIN LowerOf /\ LowerOf[s[i]] = name[i])

\* C16: the color POST /notify computes from the severity is 0078D4, FFA500,
\* D13438, 28A745 for info, warning, error, success in any casing, and the
\* info color 0078D4 for every other string and for None; a color is always
\* computed (the function does not raise).
C16_SeverityColorCaseInsensitive ==
    (direct.fn = "/notify" /\ direct.calls = 1) =>
        LET s == direct.severity
            is(name) == s.some /\ CaseVariantOf(s.v, name)
        IN  /\ is(<<"i", "n", "f", "o">>) => direct.color = "0078D4"
            /\ is(<<"w", "a", "r", "n", "i", "n", "g">>) => direct.color = "FFA500"
            /\ is(<<"e", "r", "r", "o", "r">>) => direct.color = "D13438"
            /\ is(<<"s", "u", "c", "c", "e", "s", "s">>) => direct.color = "28A745"
            /\ ( /\ ~is(<<"w", "a", "r", "n", "i", "n", "g">>)
                 /\ ~is(<<"e", "r", "r", "o", "r">>)
                 /\ ~is(<<"s", "u", "c", "c", "e", "s", "s">>) ) => direct.color = "0078D4"

\* POST /notify with severity "wARNING" has computed the warning color.
C16_Witness ==
    /\ direct.fn = "/notify"
    /\ direct.severity = Some(<<"w", "A", "R", "N", "I", "N", "G">>)
    /\ direct.color = "FFA500"

\* The fact rows of a card, section after section.
RECURSIVE AllFacts(_)
AllFacts(sections) ==
    IF sections = <<>> THEN <<>> ELSE Head(sections).facts \o AllFacts(Tail(sections))

\* The last call posted a card to the webhook.
CardPosted == direct.fn \in {"send_notification", "/notify"} /\ net # <<>>

PostedCard == net[1].json

\* The additional_facts pairs of the last call (none for None and for {}).
GivenFacts == IF TruthySeq(direct.additional_facts) THEN direct.additional_facts.v ELSE <<>>

\* C17: in the card posted, the rows are the URL row if url was given, then
\* one row per additional_facts pair, in the order of the pairs, then the
\* generated Timestamp row, last, which is there with or without url and
\* facts.
C17_FactRowsInOrderThenTimestamp ==
    CardPosted =>
        LET rows == AllFacts(PostedCard.sections)
            k == IF TruthyStr(direct.url) THEN 1 ELSE 0
        IN  /\ Len(rows) = k + Len(GivenFacts) + 1
            /\ \A i \in 1..Len(GivenFacts) :
                  rows[k + i] = [name |-> GivenFacts[i][1], value |-> GivenFacts[i][2]]
            /\ rows[Len(rows)] = [name |-> "Timestamp", value |-> Strftime(now)]

\* A card was posted for a call without url and with the facts Version,
\* Environment in that order.
C17_Witness ==
    /\ CardPosted
    /\ direct.url = None
    /\ direct.additional_facts =
          Some(<<<<"Version", "1.2.3">>, <<"Environment", "Production">>>>)
    /\ Len(AllFacts(PostedCard.sections)) = 3

\* C18: a card posted for a call with a url has exactly one potentialAction,
\* whose one target is that url; a card posted for a call whose url is None
\* or empty has no potentialAction and no row generated for the url: a row
\* named URL is then the row of an additional fact of that name.
C18_OneCallToActionIffUrl ==
    CardPosted =>
        LET rows == AllFacts(PostedCard.sections)
        IN  IF TruthyStr(direct.url)
            THEN /\ "potentialAction" \in DOMAIN PostedCard
                 /\ Len(PostedCard.potentialAction) = 1
                 /\ PostedCard.potentialAction[1].targets =
                       <<[os |-> "default", uri |-> direct.url.v]>>
            ELSE /\ "potentialAction" \notin DOMAIN PostedCard
                 /\ Len(rows) = Len(GivenFacts) + 1
                 /\ \A i \in 1..Len(rows) :
                       rows[i].name = "URL" => /\ i <= Len(GivenFacts)
                                               /\ GivenFacts[i][1] = "URL"

\* A card was posted for a call whose url is the empty string: it has
\* neither potentialAction nor a URL row, only the Timestamp row.
C18_Witness ==
    /\ CardPosted
    /\ direct.url = Some("")
    /\ direct.additional_facts = None
    /\ "potentialAction" \notin DOMAIN PostedCard
    /\ Len(AllFacts(PostedCard.sections)) = 1

\* C19: POST /notify/email that reaches send_email with no SMTP server
\* configured, no sender address configured or an empty to_emails fails with EmailNotificationError, no
\* success result is returned or answered, and no connection to an SMTP
\* server has been opened: no network I/O at all.
C19_EmailPreconditionsBeforeIO ==
    ( /\ direct.fn = "/notify/email" /\ direct.calls = 1
      /\ settings.smtp_server = "" \/ settings.sender_email = "" \/ direct.to_emails = <<>> )
    => /\ direct.raised = "EmailNotificationError"
       /\ ~direct.success
       /\ direct.status_code # 200
       /\ net = <<>>

\* POST /notify/email with server and sender configured and to_emails empty
\* has failed without network I/O.
C19_Witness ==
    /\ direct.fn = "/notify/email"
    /\ settings.smtp_server # "" /\ settings.sender_email # ""
    /\ direct.to_emails = <<>>
    /\ direct.cc_emails = Some(<<"c@x.com">>)
    /\ direct.raised = "EmailNotificationError"
    /\ net = <<>>

\* C20: when no SMTP host is configured the send step of a notify-group
\* request ends with an error, and a request ends in Sent only if its send
\* step handed a message to the SMTP server.
C20_NoHostIsAnError ==
    [][\A p \in Procs :
          (frame[p].op = "notify_group" /\ frame[p].pc = "send" /\ Finishes(p))
          => /\ smtp_host = "" => frame'[p].raised # "" /\ frame'[p].state # "Sent"
             /\ frame'[p].state = "Sent" => outbox' # outbox
    ]_vars

\* ------------------------------------------------------------- senders, C21-C30
\* send_notification was called: by a caller of the service or by POST /notify.
TeamsSenderCalled ==
    direct.fn = "send_notification" \/ (direct.fn = "/notify" /\ direct.calls = 1)

\* C21: a call of send_notification without a configured webhook URL fails
\* with TeamsNotificationError and no HTTP request; the call returns its
\* success result only after one post answered with a 2xx status, the result
\* carrying that status; with a webhook configured, every other answer and
\* every transport error is a TeamsNotificationError, whose text carries the
\* status code of the answer when there is one.
C21_TeamsFailuresSurface ==
    TeamsSenderCalled =>
        /\ settings.teams_webhook_url = ""
           => direct.raised = "TeamsNotificationError" /\ net = <<>>
        /\ direct.raised # "TeamsNotificationError"
           => /\ direct.http.kind = "response" /\ direct.http.status_code \in 200..299
              /\ Len(net) = 1 /\ net[1].kind = "http_post"
              /\ direct.fn = "send_notification"
                 => direct.ret.some /\ direct.ret.v.status_code = direct.http.status_code
        /\ ( /\ settings.teams_webhook_url # ""
             /\ ~(direct.http.kind = "response" /\ direct.http.status_code \in 200..299) )
           => /\ direct.raised = "TeamsNotificationError"
              /\ ~direct.success
              /\ direct.http.kind = "response"
                 => direct.error = "HTTP error sending Teams notification: "
                                   \o ToString(direct.http.status_code)

\* POST /notify whose webhook answered 302: the post was made and the call
\* failed with the status in its text.
C21_Witness ==
    /\ direct.fn = "/notify" /\ direct.calls = 1
    /\ direct.http = [kind |-> "response", status_code |-> 302]
    /\ Len(net) = 1
    /\ direct.raised = "TeamsNotificationError"
    /\ direct.error = "HTTP error sending Teams notification: 302"

\* An endpoint called its sender and the sender failed on a missing setting
\* (webhook URL, SMTP server or sender address), before any I/O.
ConfigurationFailed ==
    /\ direct.fn \in {"/notify", "/notify/email"} /\ direct.calls = 1
    /\ \/ direct.fn = "/notify" /\ settings.teams_webhook_url = ""
       \/ direct.fn = "/notify/email"
          /\ (settings.smtp_server = "" \/ settings.sender_email = "")

\* An endpoint called its sender and the sender failed during the send: the
\* request or the session was started and raised.
DeliveryFailed ==
    /\ direct.fn \in {"/notify", "/notify/email"} /\ direct.calls = 1
    /\ net # <<>>
    /\ direct.raised \in {"TeamsNotificationError", "EmailNotificationError"}

\* What the caller of an endpoint can tell failures apart by: the error type
\* and the HTTP status.
Outcome == <<direct.raised, direct.status_code>>

\* The outcomes of delivery failures.
DeliveryOutcomes == {<<"TeamsNotificationError", 502>>, <<"EmailNotificationError", 502>>}

\* Every delivery failure of the endpoints has one of DeliveryOutcomes.
DeliveryFailuresAre502 == DeliveryFailed => Outcome \in DeliveryOutcomes

\* C22: failure categories are not collapsed: a request that failed on a
\* missing setting does not reach the caller with the error type and status
\* of a delivery failure of its endpoint.
C22_ConfigurationDistinctFromDelivery ==
    ConfigurationFailed => Outcome \notin DeliveryOutcomes

\* A response body without its timestamp.
BodyText(body) == [k \in DOMAIN body \ {"timestamp"} |-> body[k]]

\* The request recorded in d failed with an unexpected exception.
UnexpectedFailure(d) ==
    /\ d.fn \in {"/notify", "/notify/email"}
    /\ d.fault.at # "none"
    /\ d.raised = "Exception"

\* C23: in hardened mode (settings.debug false) two requests to the same
\* endpoint that fail with unexpected exceptions raised at the same place and
\* differing only in their message are answered with the same body (the
\* timestamp aside).
C23_HardenedBodyHidesErrorText ==
    [][( /\ ~settings.debug
         /\ UnexpectedFailure(direct) /\ UnexpectedFailure(direct')
         /\ direct'.fn = direct.fn
         /\ direct'.fault.at = direct.fault.at )
       => BodyText(direct'.body) = BodyText(direct.body)]_vars

\* In hardened mode an unexpected exception raised before the try block of an
\* endpoint is answered by general_exception_handler without its text.
HardenedEntryFaultIsGeneric ==
    (~settings.debug /\ UnexpectedFailure(direct) /\ direct.fault.at = "entry")
    => direct.body.message = "An unexpected error occurred"

\* The sender of the endpoint recorded in direct returned without raising:
\* it was called, went through its I/O and raised nothing.
SenderReturned ==
    /\ direct.calls >= 1
    /\ direct.raised \notin {"TeamsNotificationError", "EmailNotificationError"}

\* C29: POST /notify and POST /notify/email answer with the success response
\* (200) only if the sender was called and returned without raising; a
\* TeamsNotificationError or EmailNotificationError is always answered 502,
\* any other exception 500; and a request calls its sender at most once,
\* leaving at most one post or one SMTP session.
C29_EndpointStatusFollowsSender ==
    direct.fn \in {"/notify", "/notify/email"} =>
        /\ direct.status_code = 200
           => /\ SenderReturned /\ direct.success /\ direct.raised = ""
              /\ net # <<>>
              /\ direct.body.status = "success"
        /\ direct.raised \in {"TeamsNotificationError", "EmailNotificationError"}
           => direct.status_code = 502
        /\ direct.raised = "Exception" => direct.status_code = 500
        /\ direct.status_code \in {200, 500, 502}
        /\ direct.calls <= 1
        /\ Cardinality({i \in DOMAIN net : net[i].kind \in {"http_post", "smtp_connect"}}) <= 1

\* POST /notify/email whose SMTP login was refused: send_email was called
\* once, raised, and the request was answered 502.
C29_Witness ==
    /\ direct.fn = "/notify/email"
    /\ direct.smtp = "auth_error"
    /\ direct.calls = 1
    /\ direct.raised = "EmailNotificationError"
    /\ direct.status_code = 502
    /\ Len(net) = 1

\* The sendmail calls of the last request, in order.
Sendmails == SelectSeq(net, LAMBDA e : e.kind = "smtp_sendmail")

\* cc_emails or [], bcc_emails or [].
OrEmpty(emails) == IF TruthySeq(emails) THEN emails.v ELSE <<>>

\* POST /notify/email reached the SMTP session of send_email.
EmailSessionRun == direct.fn = "/notify/email" /\ direct.calls = 1 /\ net # <<>>

\* The envelope and the headers of a send: at most one sendmail, exactly one
\* when the call succeeded, addressed to to_emails, then cc_emails, then
\* bcc_emails; the headers are Subject, From, To and (with cc_emails) Cc,
\* holding the to and cc addresses only; and the caller's to_emails is as it
\* was before the call.
EnvelopeAndHeaders ==
    /\ Len(Sendmails) <= 1
    /\ direct.raised # "EmailNotificationError" => Len(Sendmails) = 1
    /\ \A i \in DOMAIN Sendmails :
          /\ Sendmails[i].to_addrs
             = direct.to_emails \o OrEmpty(direct.cc_emails) \o OrEmpty(direct.bcc_emails)
          /\ DOMAIN Sendmails[i].headers \subseteq {"Subject", "From", "To", "Cc"}
          /\ Sendmails[i].headers.To = Join(direct.to_emails)
          /\ "Cc" \in DOMAIN Sendmails[i].headers
             => Sendmails[i].headers.Cc = Join(direct.cc_emails.v)
    /\ direct.to_emails_after = direct.to_emails

C24_NeverDeletedOnlyMembersChange ==
    [][ /\ \A d \in DocIds : groups[d].exists => groups'[d].exists
        /\ \A p \in Procs :
              ( /\ frame[p].op \in {"add_members", "remove_members"}
                /\ frame[p].pc = "update" /\ Finishes(p) )
              => \A d \in DocIds :
                    /\ groups'[d] = [groups[d] EXCEPT !.members = groups'[d].members]
                    /\ d # KeyDoc(frame[p]) => groups'[d] = groups[d]
      ]_vars

\* add_members has changed the members of a stored group, whose other fields
\* are those it was created with.
C24_Witness ==
    \E p \in Procs :
        LET d == KeyDoc(frame[p])
        IN  /\ Succeeded(frame[p], "add_members")
            /\ groups0[d].exists
            /\ groups[d].members # groups0[d].members
            /\ groups[d] = [groups0[d] EXCEPT !.members = groups[d].members]

\* Process p ends a call of operation op in this step with the store having
\* raised in it.
StoreRaisedIn(p, op) ==
    /\ frame'[p] # frame[p]
    /\ frame'[p].op = op /\ frame'[p].pc = "done" /\ frame'[p].storeRaised

HoldsGroupOf(d, f) ==
    d.exists /\ d.appcode = f.appcode /\ d.alert_type = f.alert_type

\* C26: groups of different (appcode, alert_type) pairs are independent:
\* add_email_group is refused as already existing only when the group of its
\* own pair is stored, get_email_group returns the group of the pair it was
\* asked for or nothing, and add_members and remove_members are accepted for,
\* and change, only the group of their own pair.
C26_PairsAreIndependent ==
    [][\A p \in Procs :
          /\ ( /\ frame'[p] # frame[p] /\ frame'[p].pc = "done"
               /\ frame'[p].op = "add_email_group" /\ frame'[p].raised = "ValueError" )
             => HoldsGroupOf(groups[KeyDoc(frame'[p])], frame'[p])
          /\ ( /\ frame'[p] # frame[p] /\ Succeeded(frame'[p], "get_email_group")
               /\ frame'[p].ret # NoDoc )
             => HoldsGroupOf(frame'[p].ret, frame'[p])
          /\ ( /\ frame[p].op \in {"add_members", "remove_members"}
               /\ frame[p].pc = "update" /\ Finishes(p) /\ frame'[p].raised = "" )
             => HoldsGroupOf(groups[KeyDoc(frame[p])], frame[p])
      ]_vars

\* C27: within one notify-group request the members are read once, at
\* Resolve; the entry the Log step adds holds exactly these members as its
\* recipients, and the message the Dispatch step hands over is addressed to
\* exactly the recipients of that entry, whatever add_members and
\* remove_members have done to the group in between.
C27_LoggedAndSentAreTheResolvedMembers ==
    [][\A p \in Procs :
          /\ (Starts(p, "notify_group") /\ frame'[p].pc = "log")
             => /\ frame'[p].members = groups[KeyDoc(frame'[p])].members
                /\ frame'[p].nGet = 1
          /\ (frame[p].op = "notify_group" /\ frame[p].pc = "log" /\ frame'[p].pc = "send")
             => /\ Len(logs') = Len(logs) + 1
                /\ logs'[frame'[p].logIdx].recipients = frame[p].members
                /\ frame'[p].members = frame[p].members
                /\ frame'[p].nGet = 1
          /\ (frame[p].op = "notify_group" /\ frame[p].pc = "send" /\ Finishes(p))
             => /\ frame'[p].nGet = 1
                /\ logs'[frame'[p].logIdx].recipients = frame[p].members
                /\ outbox' # outbox
                   => /\ Len(outbox') = Len(outbox) + 1
                      /\ outbox'[Len(outbox')].to = logs'[frame'[p].logIdx].recipients
      ]_vars

\* A notify-group request has ended in Sent with its message addressed to the
\* recipients of its log entry, while the group holds other members by now.
C27_Witness ==
    \E p \in Procs :
        /\ frame[p].op = "notify_group" /\ frame[p].state = "Sent"
        /\ Len(outbox) = 1
        /\ outbox[1].to = logs[frame[p].logIdx].recipients
        /\ groups[KeyDoc(frame[p])].members # outbox[1].to

\* The five operations of FirestoreService.
StoreOperations ==
    {"add_email_group", "add_members", "remove_members", "get_email_group", "log_notification"}

\* C28: a call of any of the five operations on a service whose client is
\* not initialised ends at once with FirestoreError: no snapshot is read, the
\* store has not raised (it was not reached) and nothing is written to
\* email_groups or notification_logs; so get_email_group does not return
\* None, whether the group is stored or not.
C28_NoClientIsFirestoreError ==
    [][\A p \in Procs :
          (~client[p] /\ frame'[p] # frame[p])
          => /\ frame'[p].op \in StoreOperations
             /\ frame'[p].pc = "done"
             /\ frame'[p].raised = "FirestoreError"
             /\ ~frame'[p].storeRaised
             /\ frame'[p].doc = NoDoc /\ frame'[p].ret = NoDoc
             /\ groups' = groups /\ logs' = logs
      ]_vars

\* get_email_group on a stored group has raised FirestoreError on a service
\* without client, and log_notification has on another.
C28_Witness ==
    /\ ~client[1] /\ ~client[2]
    /\ frame[1].op = "get_email_group" /\ frame[1].raised = "FirestoreError"
    /\ groups[KeyDoc(frame[1])].exists
    /\ frame[2].op = "log_notification" /\ frame[2].raised = "FirestoreError"
    /\ logs = <<>>

====
